---------------------------- MODULE Spec2Model ----------------------------
(***************************************************************************)
(* Model of the two notebooks of the repository:                           *)
(*   - longest-common-subsequences.ipynb: needleman_wunsch_algorithm and   *)
(*     longest_common_subsequence (dynamic-programming table fills);       *)
(*   - the majority-element notebook: naive_algorithm,                     *)
(*     divide_and_conquer_algorithm and boyer_moore_algorithm.             *)
(* Python sequences are 0-based, TLA+ sequences 1-based: s[i] of the code  *)
(* is s[i + 1] here.  Tables keep the code's 0-based indices.              *)
(***************************************************************************)
EXTENDS Integers, Sequences, FiniteSets

VARIABLES
    fn,       \* which function the caller invokes: "nw", "lcs" or "none"
    seqs,     \* the caller's three sequences <<s1, s2, s3>>
    orig,     \* the value of seqs when the caller built it
    mu,       \* mismatch penalty
    sigma,    \* insertion-deletion penalty
    perm,     \* perm[c]: the order in which invocation c receives seqs
    pc,       \* pc[c]: "idle", "ready", "loop" or "done"
    i, j, k,  \* i[c], j[c], k[c]: the loop counters of invocation c
    tab,      \* tab[t]: the table held in activation record t
    ret,      \* ret[c]: <<>> before the return, <<value>> after it
    log,      \* log[c]: the cells invocation c's loop body has written, in order
    touched,  \* touched[c]: the activation records invocation c has written to
    a,        \* the list given to the majority-element algorithms
    alg,      \* "bm", "dc" or "none"
    mpc,      \* position of the majority-element run
    candidate, count, idx,   \* locals of _candidate_majority_element
    stack,    \* call stack of _divide_and_conquer
    calls,    \* the ranges <<left, right>> called so far, in order
    result    \* <<>> before the return, <<value>> after it

avars == <<fn, seqs, orig, mu, sigma, perm, pc, i, j, k, tab, ret, log, touched>>
mvars == <<a, alg, mpc, candidate, count, idx, stack, calls, result>>
vars == <<fn, seqs, orig, mu, sigma, perm, pc, i, j, k, tab, ret, log, touched,
          a, alg, mpc, candidate, count, idx, stack, calls, result>>

-----------------------------------------------------------------------------
(* Bounds of the model *)

NWMaxLen == 3
LCSMaxLen == 3
PermMaxLen == 2
ConcMaxLen == 2
MaxPenalty == 2
MajMaxLen == 6
MaxDepth == 6

Alphabet == {"A", "C"}
Penalties == (0 - MaxPenalty)..MaxPenalty
Values == {-1, 1, 2}

SeqsUpTo(n, S) == UNION {[1..l -> S] : l \in 0..n}

Calls == {1, 2}
Identity == <<1, 2, 3>>
Perms == {p \in [1..3 -> 1..3] : {p[1], p[2], p[3]} = {1, 2, 3}}

-----------------------------------------------------------------------------
(* Python built-ins *)

Max2(x, y) == IF x >= y THEN x ELSE y
Max3(x, y, z) == Max2(Max2(x, y), z)

-----------------------------------------------------------------------------
(* needleman_wunsch_algorithm *)

InitAllZero(m, n, sg) == [r \in 0..m |-> [c \in 0..n |-> 0]]

_alignment_score_init(m, n, sg) ==
    [r \in 0..m |-> [c \in 0..n |->
        IF r = 0 THEN sg * c ELSE IF c = 0 THEN sg * r ELSE 0]]

StepAlwaysMatch(D, r, c, s1, s2, m, sg) ==
    [D EXCEPT ![r][c] = Max3(D[r][c - 1] + sg, D[r - 1][c] + sg, D[r - 1][c - 1] + 1)]

StepMismatchAsGap(D, r, c, s1, s2, m, sg) ==
    [D EXCEPT ![r][c] = Max3(D[r][c - 1] + sg, D[r - 1][c] + sg,
                             D[r - 1][c - 1] + (IF s1[r] = s2[c] THEN 1 ELSE sg))]

StepNoDiagonal(D, r, c, s1, s2, m, sg) ==
    [D EXCEPT ![r][c] = Max2(D[r][c - 1] + sg, D[r - 1][c] + sg)]

_alignment_score_step(D, r, c, s1, s2, m, sg) ==
    LET c1 == s1[r]
        c2 == s2[c]
        insertion == D[r][c - 1] + sg
        deletion == D[r - 1][c] + sg
        match == D[r - 1][c - 1] + 1
        mismatch == D[r - 1][c - 1] + m
    IN IF c1 = c2
       THEN [D EXCEPT ![r][c] = Max3(insertion, deletion, match)]
       ELSE [D EXCEPT ![r][c] = Max3(insertion, deletion, mismatch)]

-----------------------------------------------------------------------------
(* longest_common_subsequence *)

lcs_table_init(m, n, p) ==
    [r \in 0..m |-> [c \in 0..n |-> [d \in 0..p |-> 0]]]

LcsStepDiagonalOnly(D, r, c, d, s1, s2, s3) ==
    IF s1[r + 1] = s2[c + 1] /\ s2[c + 1] = s3[d + 1]
    THEN [D EXCEPT ![r + 1][c + 1][d + 1] = D[r][c][d] + 1]
    ELSE [D EXCEPT ![r + 1][c + 1][d + 1] = D[r][c][d]]

LcsStepPairwiseMatch(D, r, c, d, s1, s2, s3) ==
    IF s1[r + 1] = s2[c + 1]
    THEN [D EXCEPT ![r + 1][c + 1][d + 1] = D[r][c][d] + 1]
    ELSE [D EXCEPT ![r + 1][c + 1][d + 1] =
              Max3(D[r + 1][c + 1][d], D[r + 1][c][d + 1], D[r][c + 1][d + 1])]

lcs_step(D, r, c, d, s1, s2, s3) ==
    IF s1[r + 1] = s2[c + 1] /\ s2[c + 1] = s3[d + 1]
    THEN [D EXCEPT ![r + 1][c + 1][d + 1] = D[r][c][d] + 1]
    ELSE [D EXCEPT ![r + 1][c + 1][d + 1] =
              Max3(D[r + 1][c + 1][d], D[r + 1][c][d + 1], D[r][c + 1][d + 1])]

-----------------------------------------------------------------------------
(* Invocations.  Invocation c receives the caller's sequences in the order  *)
(* perm[c]; its table D is a local variable, held in its own activation     *)
(* record.                                                                  *)

S1(c) == seqs[perm[c][1]]
S2(c) == seqs[perm[c][2]]
S3(c) == seqs[perm[c][3]]

SharedTable(c) == 1

LocalTable(c) == c

MoreNW(c) == i[c] < Len(S1(c)) /\ j[c] < Len(S2(c))

NWCall(c) ==
    /\ fn = "nw" /\ pc[c] = "ready"
    /\ tab' = [tab EXCEPT ![LocalTable(c)] =
                   _alignment_score_init(Len(S1(c)), Len(S2(c)), sigma)]
    /\ touched' = [touched EXCEPT ![c] = @ \cup {LocalTable(c)}]
    /\ i' = [i EXCEPT ![c] = 0]
    /\ j' = [j EXCEPT ![c] = 0]
    /\ pc' = [pc EXCEPT ![c] = "loop"]
    /\ UNCHANGED <<fn, seqs, orig, mu, sigma, perm, k, ret, log>>
    /\ UNCHANGED mvars

NWStep(c) ==
    /\ fn = "nw" /\ pc[c] = "loop" /\ MoreNW(c)
    /\ tab' = [tab EXCEPT ![LocalTable(c)] =
                   _alignment_score_step(@, i[c] + 1, j[c] + 1, S1(c), S2(c), mu, sigma)]
    /\ touched' = [touched EXCEPT ![c] = @ \cup {LocalTable(c)}]
    /\ log' = [log EXCEPT ![c] = Append(@, <<i[c] + 1, j[c] + 1>>)]
    /\ IF j[c] + 1 < Len(S2(c))
       THEN j' = [j EXCEPT ![c] = @ + 1] /\ i' = i
       ELSE j' = [j EXCEPT ![c] = 0] /\ i' = [i EXCEPT ![c] = @ + 1]
    /\ UNCHANGED <<fn, seqs, orig, mu, sigma, perm, pc, k, ret>>
    /\ UNCHANGED mvars

NWReturn(c) ==
    /\ fn = "nw" /\ pc[c] = "loop" /\ ~MoreNW(c)
    /\ ret' = [ret EXCEPT ![c] = <<tab[LocalTable(c)][Len(S1(c))][Len(S2(c))]>>]
    /\ pc' = [pc EXCEPT ![c] = "done"]
    /\ UNCHANGED <<fn, seqs, orig, mu, sigma, perm, i, j, k, tab, log, touched>>
    /\ UNCHANGED mvars

MoreLCS(c) == i[c] < Len(S1(c)) /\ j[c] < Len(S2(c)) /\ k[c] < Len(S3(c))

LCSCall(c) ==
    /\ fn = "lcs" /\ pc[c] = "ready"
    /\ tab' = [tab EXCEPT ![LocalTable(c)] =
                   lcs_table_init(Len(S1(c)), Len(S2(c)), Len(S3(c)))]
    /\ touched' = [touched EXCEPT ![c] = @ \cup {LocalTable(c)}]
    /\ i' = [i EXCEPT ![c] = 0]
    /\ j' = [j EXCEPT ![c] = 0]
    /\ k' = [k EXCEPT ![c] = 0]
    /\ pc' = [pc EXCEPT ![c] = "loop"]
    /\ UNCHANGED <<fn, seqs, orig, mu, sigma, perm, ret, log>>
    /\ UNCHANGED mvars

LCSStep(c) ==
    /\ fn = "lcs" /\ pc[c] = "loop" /\ MoreLCS(c)
    /\ tab' = [tab EXCEPT ![LocalTable(c)] =
                   lcs_step(@, i[c], j[c], k[c], S1(c), S2(c), S3(c))]
    /\ touched' = [touched EXCEPT ![c] = @ \cup {LocalTable(c)}]
    /\ log' = [log EXCEPT ![c] = Append(@, <<i[c] + 1, j[c] + 1, k[c] + 1>>)]
    /\ IF k[c] + 1 < Len(S3(c))
       THEN k' = [k EXCEPT ![c] = @ + 1] /\ j' = j /\ i' = i
       ELSE IF j[c] + 1 < Len(S2(c))
            THEN k' = [k EXCEPT ![c] = 0] /\ j' = [j EXCEPT ![c] = @ + 1] /\ i' = i
            ELSE /\ k' = [k EXCEPT ![c] = 0]
                 /\ j' = [j EXCEPT ![c] = 0]
                 /\ i' = [i EXCEPT ![c] = @ + 1]
    /\ UNCHANGED <<fn, seqs, orig, mu, sigma, perm, pc, ret>>
    /\ UNCHANGED mvars

LCSReturn(c) ==
    /\ fn = "lcs" /\ pc[c] = "loop" /\ ~MoreLCS(c)
    /\ ret' = [ret EXCEPT ![c] =
                   <<tab[LocalTable(c)][Len(S1(c))][Len(S2(c))][Len(S3(c))]>>]
    /\ pc' = [pc EXCEPT ![c] = "done"]
    /\ UNCHANGED <<fn, seqs, orig, mu, sigma, perm, i, j, k, tab, log, touched>>
    /\ UNCHANGED mvars

-----------------------------------------------------------------------------
(* Initial states *)

ACTG == <<"A", "C", "T", "G">>
AG == <<"A", "G">>
AAAA == <<"A", "A", "A", "A">>

NWInputs(n) == (SeqsUpTo(n, Alphabet) \X SeqsUpTo(n, Alphabet)) \cup {<<ACTG, AG>>}
LCSInputs(n) ==
    (SeqsUpTo(n, Alphabet) \X SeqsUpTo(n, Alphabet) \X SeqsUpTo(n, Alphabet))
        \cup {<<AAAA, AAAA, AAAA>>}

MajorityIdle ==
    /\ a = <<>> /\ alg = "none" /\ mpc = "idle"
    /\ candidate = 0 /\ count = 0 /\ idx = 0
    /\ stack = <<>> /\ calls = <<>> /\ result = <<>>

AlignInit(n2, n3) ==
    /\ \/ /\ fn = "nw"
          /\ \E in \in NWInputs(n2) : seqs = <<in[1], in[2], <<>> >>
          /\ mu \in Penalties /\ sigma \in Penalties
       \/ /\ fn = "lcs"
          /\ seqs \in LCSInputs(n3)
          /\ mu = 0 /\ sigma = 0
    /\ orig = seqs
    /\ i = [c \in Calls |-> 0]
    /\ j = [c \in Calls |-> 0]
    /\ k = [c \in Calls |-> 0]
    /\ tab = [c \in Calls |-> <<>>]
    /\ ret = [c \in Calls |-> <<>>]
    /\ log = [c \in Calls |-> <<>>]
    /\ touched = [c \in Calls |-> {}]
    /\ MajorityIdle

(* One invocation. *)
Init ==
    /\ AlignInit(NWMaxLen, LCSMaxLen)
    /\ perm = [c \in Calls |-> Identity]
    /\ pc = [c \in Calls |-> IF c = 1 THEN "ready" ELSE "idle"]

Next ==
    \/ NWCall(1) \/ NWStep(1) \/ NWReturn(1)
    \/ LCSCall(1) \/ LCSStep(1) \/ LCSReturn(1)

Spec == Init /\ [][Next]_vars

-----------------------------------------------------------------------------
(* Reference definitions, independent of the table fills *)

MaxOf(S) == CHOOSE x \in S : \A y \in S : y <= x

RECURSIVE Pick(_, _, _)
\* the subsequence of s[1..n] made of the positions in I, in order
Pick(s, I, n) ==
    IF n = 0 THEN <<>>
    ELSE IF n \in I THEN Append(Pick(s, I, n - 1), s[n]) ELSE Pick(s, I, n - 1)

Subsequences(s) == {Pick(s, I, Len(s)) : I \in SUBSET (1..Len(s))}

LcsLength2(x, y) == MaxOf({Len(w) : w \in Subsequences(x) \cap Subsequences(y)})

LcsLength3(x, y, z) ==
    MaxOf({Len(w) : w \in Subsequences(x) \cap Subsequences(y) \cap Subsequences(z)})

\* An end-to-end alignment is a sequence of columns: "M" pairs the next symbol
\* of s1 with the next symbol of s2, "D" pairs the next symbol of s1 with a
\* gap, "I" pairs a gap with the next symbol of s2.
Columns == {"M", "D", "I"}

CountOf(w, n, S) == Cardinality({t \in 1..n : w[t] \in S})

Alignments(m, n) ==
    {w \in UNION {[1..l -> Columns] : l \in Max2(m, n)..(m + n)} :
        /\ CountOf(w, Len(w), {"M", "D"}) = m
        /\ CountOf(w, Len(w), {"M", "I"}) = n}

\* the columns of alignment w that pair a symbol with a symbol, each as the
\* pair <<position in s1, position in s2>>, and the number of its gap columns
PairedColumns(w) ==
    {<<CountOf(w, t, {"M", "D"}), CountOf(w, t, {"M", "I"})>> :
         t \in {u \in 1..Len(w) : w[u] = "M"}}

GapColumns(w) == CountOf(w, Len(w), {"D", "I"})

\* every alignment of every pair of lengths the model draws, enumerated once
AlignmentTable ==
    [m \in 0..Max2(NWMaxLen, Len(ACTG)), n \in 0..Max2(NWMaxLen, Len(ACTG)) |->
        {[pairs |-> PairedColumns(w), gaps |-> GapColumns(w)] : w \in Alignments(m, n)}]

\* +1 per column pairing equal symbols, m per column pairing different
\* symbols, sg per column pairing a symbol with a gap
AlignmentScore(al, s1, s2, m, sg) ==
    LET equal == Cardinality({p \in al.pairs : s1[p[1]] = s2[p[2]]})
    IN equal + m * (Cardinality(al.pairs) - equal) + sg * al.gaps

OptimalAlignmentScore(s1, s2, m, sg) ==
    MaxOf({AlignmentScore(al, s1, s2, m, sg) : al \in AlignmentTable[Len(s1), Len(s2)]})

-----------------------------------------------------------------------------
(* Claims about one invocation (Spec) *)

Returned(f) == fn = f /\ pc[1] = "done"

\* C1: with mu = 0 and sigma = 0, needleman_wunsch_algorithm returns the length
\* of the longest common subsequence of s1 and s2 (the maximum length over all
\* common subsequences); "ACTG" and "AG" give 2.
C1_NWZeroPenaltiesIsLcs ==
    (Returned("nw") /\ mu = 0 /\ sigma = 0) =>
        /\ ret[1] = <<LcsLength2(S1(1), S2(1))>>
        /\ (S1(1) = ACTG /\ S2(1) = AG) => ret[1] = <<2>>

C1_Witness ==
    /\ Returned("nw") /\ mu = 0 /\ sigma = 0
    /\ S1(1) = ACTG /\ S2(1) = AG /\ ret[1] = <<2>>

\* C2: for all penalties, needleman_wunsch_algorithm returns the maximum, over
\* every end-to-end alignment of s1 with s2, of the sum of +1 per column pairing
\* equal symbols, mu per column pairing different symbols and sigma per column
\* pairing a symbol with a gap.
C2_NWIsOptimalAlignmentScore ==
    Returned("nw") => ret[1] = <<OptimalAlignmentScore(S1(1), S2(1), mu, sigma)>>

C2_Witness ==
    /\ Returned("nw") /\ mu = -1 /\ sigma = -1
    /\ S1(1) = <<"A", "C", "A">> /\ S2(1) = <<"C", "A">> /\ ret[1] = <<1>>

\* C3: longest_common_subsequence returns the length of the longest sequence
\* that is a subsequence of all three inputs (brute-force reference); three
\* copies of "AAAA" give 4.
C3_LcsIsLongestCommonSubsequence ==
    Returned("lcs") =>
        /\ ret[1] = <<LcsLength3(S1(1), S2(1), S3(1))>>
        /\ seqs = <<AAAA, AAAA, AAAA>> => ret[1] = <<4>>

C3_Witness == Returned("lcs") /\ seqs = <<AAAA, AAAA, AAAA>> /\ ret[1] = <<4>>

\* C7: when s1 or s2 is empty needleman_wunsch_algorithm returns sigma times the
\* length of the other sequence; longest_common_subsequence returns 0 when one
\* of its sequences is empty; in both cases the loop body never runs and the
\* cell read by the return statement exists (no index error).
NWEmptyInput == fn = "nw" /\ (S1(1) = <<>> \/ S2(1) = <<>>)
LCSEmptyInput == fn = "lcs" /\ (S1(1) = <<>> \/ S2(1) = <<>> \/ S3(1) = <<>>)

C7_EmptyInputBoundary ==
    /\ (NWEmptyInput /\ pc[1] = "loop") =>
           /\ ~MoreNW(1)
           /\ Len(S1(1)) \in DOMAIN tab[1]
           /\ Len(S2(1)) \in DOMAIN tab[1][Len(S1(1))]
    /\ (NWEmptyInput /\ pc[1] = "done") =>
           ret[1] = <<sigma * (Len(S1(1)) + Len(S2(1)))>>
    /\ (LCSEmptyInput /\ pc[1] = "loop") =>
           /\ ~MoreLCS(1)
           /\ Len(S1(1)) \in DOMAIN tab[1]
           /\ Len(S2(1)) \in DOMAIN tab[1][Len(S1(1))]
           /\ Len(S3(1)) \in DOMAIN tab[1][Len(S1(1))][Len(S2(1))]
    /\ (LCSEmptyInput /\ pc[1] = "done") => ret[1] = <<0>>

C7_Witness ==
    \/ /\ NWEmptyInput /\ pc[1] = "done" /\ sigma = -1
       /\ Len(S2(1)) = 2 /\ ret[1] = <<-2>>
    \/ /\ LCSEmptyInput /\ pc[1] = "done"
       /\ Len(S1(1)) = 2 /\ Len(S2(1)) = 2 /\ ret[1] = <<0>>

\* C9: table-fill invariant of needleman_wunsch_algorithm: the table has
\* (len(s1)+1) x (len(s2)+1) cells; the boundary cells keep sigma*i and sigma*j
\* throughout the loop; every call of _alignment_score_step has 1 <= i <= m and
\* 1 <= j <= n and reads only cells that are final (boundary cells or cells
\* already written); each interior cell is written at most once during the loop
\* and exactly once on completion; every written cell equals the maximum of
\* insertion, deletion and match-or-mismatch of its (final) neighbours.
Written(c) == {log[c][t] : t \in 1..Len(log[c])}
Final(c, r, q) == r = 0 \/ q = 0 \/ <<r, q>> \in Written(c)
Recurrence(D, r, q, s1, s2) ==
    D[r][q] = Max3(D[r][q - 1] + sigma, D[r - 1][q] + sigma,
                   D[r - 1][q - 1] + (IF s1[r] = s2[q] THEN 1 ELSE mu))

C9_NWTableFillInvariant ==
    (fn = "nw" /\ pc[1] \in {"loop", "done"}) =>
        LET m == Len(S1(1))
            n == Len(S2(1))
            D == tab[1]
        IN /\ DOMAIN D = 0..m
           /\ \A r \in 0..m : DOMAIN D[r] = 0..n
           /\ \A r \in 0..m : D[r][0] = sigma * r
           /\ \A q \in 0..n : D[0][q] = sigma * q
           /\ \A cell \in Written(1) : cell[1] \in 1..m /\ cell[2] \in 1..n
           /\ (pc[1] = "loop" /\ MoreNW(1)) =>
                  /\ i[1] + 1 \in 1..m /\ j[1] + 1 \in 1..n
                  /\ Final(1, i[1] + 1, j[1])
                  /\ Final(1, i[1], j[1] + 1)
                  /\ Final(1, i[1], j[1])
                  /\ <<i[1] + 1, j[1] + 1>> \notin Written(1)
           /\ Cardinality(Written(1)) = Len(log[1])
           /\ \A cell \in Written(1) : Recurrence(D, cell[1], cell[2], S1(1), S2(1))
           /\ pc[1] = "done" => Written(1) = (1..m) \X (1..n)

C9_Witness ==
    /\ fn = "nw" /\ pc[1] = "done" /\ Len(log[1]) = 9
    /\ mu = -1 /\ sigma = 1 /\ tab[1][3][3] = 6

-----------------------------------------------------------------------------
(* Two invocations of longest_common_subsequence, one after the other, the  *)
(* second on a permutation of the arguments of the first (SpecPerm)         *)

InitPerm ==
    /\ AlignInit(PermMaxLen, PermMaxLen)
    /\ fn = "lcs"
    /\ \E p \in Perms : perm = [c \in Calls |-> IF c = 1 THEN Identity ELSE p]
    /\ pc = [c \in Calls |-> "ready"]

NextPerm ==
    \/ LCSCall(1) \/ LCSStep(1) \/ LCSReturn(1)
    \/ /\ pc[1] = "done"
       /\ (LCSCall(2) \/ LCSStep(2) \/ LCSReturn(2))

SpecPerm == InitPerm /\ [][NextPerm]_vars

\* C4: for every permutation (a, b, c) of s1, s2, s3,
\* longest_common_subsequence(a, b, c) = longest_common_subsequence(s1, s2, s3).
C4_LcsSymmetricUnderPermutation ==
    (pc[1] = "done" /\ pc[2] = "done") => ret[2] = ret[1]

C4_Witness ==
    /\ pc[1] = "done" /\ pc[2] = "done" /\ perm[2] = <<3, 1, 2>>
    /\ seqs = << <<"A", "C">>, <<"C">>, <<"C", "A">> >>
    /\ ret[1] = <<1>> /\ ret[2] = <<1>>

-----------------------------------------------------------------------------
(* Two invocations on the same inputs, their steps interleaved (SpecConc)   *)

InitConc ==
    /\ AlignInit(ConcMaxLen, ConcMaxLen)
    /\ perm = [c \in Calls |-> Identity]
    /\ pc = [c \in Calls |-> "ready"]

NextConc ==
    \E c \in Calls :
        \/ NWCall(c) \/ NWStep(c) \/ NWReturn(c)
        \/ LCSCall(c) \/ LCSStep(c) \/ LCSReturn(c)

SpecConc == InitConc /\ [][NextConc]_vars

\* C8: two invocations on the same inputs, run one after the other or with
\* their table-fill steps interleaved, return identical results: each writes
\* only the table of its own activation record, the input sequences are never
\* modified, and a cell both have written holds the same value in both tables.
CellOf(D, cell) ==
    IF Len(cell) = 2 THEN D[cell[1]][cell[2]] ELSE D[cell[1]][cell[2]][cell[3]]

-----------------------------------------------------------------------------
(* Majority element: is_majority_element, naive_algorithm *)

\* list.count
Count(b, element) == Cardinality({t \in 1..Len(b) : b[t] = element})

is_majority_element(element, b) == Count(b, element) > Len(b) \div 2

naive_algorithm(b) ==
    LET hits == {t \in 1..Len(b) : is_majority_element(b[t], b)}
    IN IF hits = {} THEN -1 ELSE b[CHOOSE t \in hits : \A u \in hits : t <= u]

-----------------------------------------------------------------------------
(* boyer_moore_algorithm *)

CandidateStepKeepOnZero(cand, cnt, element) ==
    LET c1 == IF cand = element THEN cnt + 1 ELSE cnt - 1
    IN IF c1 = 0 THEN <<cand, 1>> ELSE <<cand, c1>>

\* one iteration of the loop of _candidate_majority_element
CandidateStep(cand, cnt, element) ==
    LET c1 == IF cand = element THEN cnt + 1 ELSE cnt - 1
    IN IF c1 = 0 THEN <<element, 1>> ELSE <<cand, c1>>

BMEmpty ==
    /\ alg = "bm" /\ mpc = "ready" /\ Len(a) = 0
    /\ result' = <<-1>>
    /\ mpc' = "done"
    /\ UNCHANGED <<a, alg, candidate, count, idx, stack, calls>>
    /\ UNCHANGED avars

BMStart ==
    /\ alg = "bm" /\ mpc = "ready" /\ Len(a) # 0
    /\ candidate' = a[1]
    /\ count' = 1
    /\ idx' = 0
    /\ mpc' = "bmloop"
    /\ UNCHANGED <<a, alg, stack, calls, result>>
    /\ UNCHANGED avars

BMIter ==
    /\ alg = "bm" /\ mpc = "bmloop" /\ idx < Len(a)
    /\ candidate' = CandidateStep(candidate, count, a[idx + 1])[1]
    /\ count' = CandidateStep(candidate, count, a[idx + 1])[2]
    /\ idx' = idx + 1
    /\ UNCHANGED <<a, alg, mpc, stack, calls, result>>
    /\ UNCHANGED avars

BMCandidate ==
    /\ alg = "bm" /\ mpc = "bmloop" /\ idx >= Len(a)
    /\ mpc' = "verify"
    /\ UNCHANGED <<a, alg, candidate, count, idx, stack, calls, result>>
    /\ UNCHANGED avars

BMVerify ==
    /\ alg = "bm" /\ mpc = "verify"
    /\ result' = IF is_majority_element(candidate, a) THEN <<candidate>> ELSE <<-1>>
    /\ mpc' = "done"
    /\ UNCHANGED <<a, alg, candidate, count, idx, stack, calls>>
    /\ UNCHANGED avars

-----------------------------------------------------------------------------
(* divide_and_conquer_algorithm.  The recursion is _divide_and_conquer,     *)
(* which the code invokes under the name _get_majority_element.  A frame of *)
(* the call stack holds the range, the position in the body ("enter",       *)
(* "left": in the first recursive call, "gotleft", "right": in the second,  *)
(* "gotright") and the two results.                                         *)

Frame(l, r) == [left |-> l, right |-> r, ph |-> "enter", le |-> 0, re |-> 0]

\* The recursive calls and divide_and_conquer_algorithm name the callee
\* _get_majority_element; the notebook defines no function of that name, and
\* the callee is taken to be _divide_and_conquer: a call starts an activation
\* of its body on the range [l, r).
_get_majority_element(l, r) == Frame(l, r)

Top == stack[Len(stack)]

MidNoOffset(l, r) == (r - l) \div 2

Mid(l, r) == l + (r - l) \div 2

MergeNoRecount(b, le, re) ==
    IF le = -1 /\ re # -1
    THEN (IF Count(b, re) > Len(b) \div 2 THEN re ELSE -1)
    ELSE IF le # -1 /\ re = -1
    THEN (IF Count(b, le) > Len(b) \div 2 THEN le ELSE -1)
    ELSE IF le # -1 /\ re # -1
    THEN le
    ELSE -1

\* "merge the left and right elements", b = a[left:right]
Merge(b, le, re) ==
    IF le = -1 /\ re # -1
    THEN (IF Count(b, re) > Len(b) \div 2 THEN re ELSE -1)
    ELSE IF le # -1 /\ re = -1
    THEN (IF Count(b, le) > Len(b) \div 2 THEN le ELSE -1)
    ELSE IF le # -1 /\ re # -1
    THEN (IF Count(b, le) > Len(b) \div 2 THEN le
          ELSE IF Count(b, re) > Len(b) \div 2 THEN re
          ELSE -1)
    ELSE -1

\* "return majority_element": pop the frame and hand the value to the caller
Return(v) ==
    IF Len(stack) = 1
    THEN /\ stack' = <<>>
         /\ result' = <<v>>
         /\ mpc' = "done"
    ELSE LET parent == stack[Len(stack) - 1]
             updated == IF parent.ph = "left"
                        THEN [parent EXCEPT !.le = v, !.ph = "gotleft"]
                        ELSE [parent EXCEPT !.re = v, !.ph = "gotright"]
         IN /\ stack' = Append(SubSeq(stack, 1, Len(stack) - 2), updated)
            /\ UNCHANGED <<result, mpc>>

DCCall ==
    /\ alg = "dc" /\ mpc = "ready"
    /\ stack' = <<_get_majority_element(0, Len(a))>>
    /\ calls' = << <<0, Len(a)>> >>
    /\ mpc' = "run"
    /\ UNCHANGED <<a, alg, candidate, count, idx, result>>
    /\ UNCHANGED avars

DCEmpty ==
    /\ alg = "dc" /\ mpc = "run" /\ Top.ph = "enter"
    /\ Top.left = Top.right
    /\ Return(-1)
    /\ UNCHANGED <<a, alg, candidate, count, idx, calls>>
    /\ UNCHANGED avars

DCSingle ==
    /\ alg = "dc" /\ mpc = "run" /\ Top.ph = "enter"
    /\ Top.left # Top.right /\ Top.left + 1 = Top.right
    /\ Return(a[Top.left + 1])
    /\ UNCHANGED <<a, alg, candidate, count, idx, calls>>
    /\ UNCHANGED avars

DCLeft ==
    /\ alg = "dc" /\ mpc = "run" /\ Top.ph = "enter"
    /\ Top.left # Top.right /\ Top.left + 1 # Top.right
    /\ Len(stack) < MaxDepth
    /\ LET m == Mid(Top.left, Top.right)
       IN /\ stack' = Append([stack EXCEPT ![Len(stack)].ph = "left"],
                             _get_majority_element(Top.left, m))
          /\ calls' = Append(calls, <<Top.left, m>>)
    /\ UNCHANGED <<a, alg, mpc, candidate, count, idx, result>>
    /\ UNCHANGED avars

DCRight ==
    /\ alg = "dc" /\ mpc = "run" /\ Top.ph = "gotleft"
    /\ Len(stack) < MaxDepth
    /\ LET m == Mid(Top.left, Top.right)
       IN /\ stack' = Append([stack EXCEPT ![Len(stack)].ph = "right"],
                             _get_majority_element(m, Top.right))
          /\ calls' = Append(calls, <<m, Top.right>>)
    /\ UNCHANGED <<a, alg, mpc, candidate, count, idx, result>>
    /\ UNCHANGED avars

DCMerge ==
    /\ alg = "dc" /\ mpc = "run" /\ Top.ph = "gotright"
    /\ Return(Merge(SubSeq(a, Top.left + 1, Top.right), Top.le, Top.re))
    /\ UNCHANGED <<a, alg, candidate, count, idx, calls>>
    /\ UNCHANGED avars

-----------------------------------------------------------------------------
(* One run of a majority-element algorithm on a list (SpecMaj)              *)

AlignIdle ==
    /\ fn = "none" /\ seqs = <<>> /\ orig = <<>> /\ mu = 0 /\ sigma = 0
    /\ perm = <<>> /\ pc = <<>> /\ i = <<>> /\ j = <<>> /\ k = <<>>
    /\ tab = <<>> /\ ret = <<>> /\ log = <<>> /\ touched = <<>>

InitMaj ==
    /\ a \in SeqsUpTo(MajMaxLen, Values)
    /\ alg \in {"bm", "dc"}
    /\ mpc = "ready"
    /\ candidate = 0 /\ count = 0 /\ idx = 0
    /\ stack = <<>> /\ calls = <<>> /\ result = <<>>
    /\ AlignIdle

NextMaj ==
    \/ BMEmpty \/ BMStart \/ BMIter \/ BMCandidate \/ BMVerify
    \/ DCCall \/ DCEmpty \/ DCSingle \/ DCLeft \/ DCRight \/ DCMerge

SpecMaj == InitMaj /\ [][NextMaj]_vars

\* the interpreter runs the algorithm to its end
SpecMajFair == SpecMaj /\ WF_vars(NextMaj)

HasMajority(b) == \E t \in 1..Len(b) : Count(b, b[t]) > Len(b) \div 2

\* the element whose count exceeds len(b) // 2 when one exists, -1 otherwise
MajorityOrSentinel(b) ==
    IF HasMajority(b)
    THEN b[CHOOSE t \in 1..Len(b) : Count(b, b[t]) > Len(b) \div 2]
    ELSE -1

\* C5: boyer_moore_algorithm(a) = naive_algorithm(a), the element whose count
\* exceeds len(a) // 2 when one exists and -1 otherwise (the empty list and
\* lists containing -1 included); when a has a majority element,
\* _candidate_majority_element(a) returns it.
C5_BoyerMooreAgreesWithNaive ==
    /\ (alg = "bm" /\ mpc = "done") =>
           /\ result = <<naive_algorithm(a)>>
           /\ result = <<MajorityOrSentinel(a)>>
    /\ (alg = "bm" /\ mpc = "verify" /\ HasMajority(a)) =>
           candidate = MajorityOrSentinel(a)

C5_Witness ==
    /\ alg = "bm" /\ mpc = "done"
    /\ a = <<1, 2, -1, 2, 2>> /\ candidate = 2 /\ result = <<2>>

C10_RecursionInvariant ==
    alg = "dc" =>
        /\ \A t \in 1..Len(calls) :
               /\ 0 <= calls[t][1] /\ calls[t][2] <= Len(a)
               /\ calls[t][1] < calls[t][2] \/ (t = 1 /\ a = <<>>)
        /\ Cardinality({calls[t] : t \in 1..Len(calls)}) = Len(calls)
        /\ \A d \in 2..Len(stack) :
               /\ stack[d - 1].left <= stack[d].left
               /\ stack[d].right <= stack[d - 1].right
               /\ stack[d].right - stack[d].left < stack[d - 1].right - stack[d - 1].left
        /\ Len(stack) < MaxDepth
        /\ (mpc = "run" /\ Top.ph = "enter") =>
               /\ Top.right - Top.left >= 2 =>
                      /\ Top.left < Mid(Top.left, Top.right)
                      /\ Mid(Top.left, Top.right) < Top.right
               /\ Top.left + 1 = Top.right => Top.left + 1 \in DOMAIN a
               /\ Top.left = Top.right => (Len(stack) = 1 /\ a = <<>>)

=============================================================================
